---- MODULE Spec2Model ----
(***************************************************************************)
(* libral: the provider abstraction (provider.cc), the external-process    *)
(* JSON provider (json_provider.cc), the result<R> tagged union            *)
(* (result.hpp) and the caller that drives them.                           *)
(*                                                                         *)
(* One caller holds at most one resource handle (held).  Every operation   *)
(* is one atomic step that records its inputs in `call` and everything it  *)
(* returned, logged and sent to the backend in `ret`; Discard is the       *)
(* caller letting the returned value go out of scope (or keeping a         *)
(* returned resource as its handle) before the next call.                  *)
(***************************************************************************)
EXTENDS Integers, Sequences, FiniteSets, TLC

VARIABLES held, call, ret, p_spec, objs, fault

vars == <<held, call, ret, p_spec, objs, fault>>

-----------------------------------------------------------------------------
(* Bounds of the model *)

MaxChanges == 2     \* entries of a reply's `changes` object
MaxResources == 2   \* entries of a reply's `resources` array
MaxProps == 2       \* length of the property list handed to check
MaxResults == 2     \* result<R> objects the caller has storage for

-----------------------------------------------------------------------------
(* Values, attribute maps *)

None == "<none>"            \* boost::none: an absent value / a missing JSON member
Values == {"x", "y"}        \* present (string) values
AttrKeys == {"a", "b"}
Keys == AttrKeys \cup {"name"}
Names == {"n1", "n2"}

EmptyMap == [k \in {} |-> None]

\* All maps from a subset of ks to vs
PartialMaps(ks, vs) == UNION {[d -> vs] : d \in SUBSET ks}

\* value::is_present
is_present(v) == v # None

\* const value attr_map::operator[](key) const
AttrGet(m, key) == IF key \in DOMAIN m THEN m[key] ELSE None

\* value& attr_map::operator[](key): std::map::operator[] default-inserts
AttrRef(m, key) ==
  IF key \in DOMAIN m THEN m
  ELSE [k \in DOMAIN m \cup {key} |-> IF k = key THEN None ELSE m[k]]

\* assignment through the reference attr_map::operator[] returns
AttrPut(m, key, v) ==
  [k \in DOMAIN m \cup {key} |-> IF k = key THEN v ELSE m[k]]

is_name_typo(key) == key = "Name"

\* static bool is_name(key)
is_name(key) == key = "name"

\* std::map<std::string, value> iterates its keys in sorted order
KeyOrder == <<"a", "b", "name">>
SortedKeys(S) == SelectSeq(KeyOrder, LAMBDA k : k \in S)

-----------------------------------------------------------------------------
(* Changes *)

\* struct change { attr, is, was }
change(attr, is, was) == [attr |-> attr, is |-> is, was |-> was]

changes_add_swapped(chgs, attr, is, was) == Append(chgs, change(attr, was, is))

changes_add_front(chgs, attr, is, was) == <<change(attr, is, was)>> \o chgs

\* changes::add
changes_add(chgs, attr, is, was) == Append(chgs, change(attr, is, was))

-----------------------------------------------------------------------------
(* Resources *)

\* resource(name): the identity and an empty attribute map
NewResource(name) == [name |-> name, attrs |-> EmptyMap]

\* value& resource::operator[](key), assigned v: thrown, or the resource after it
ResourceWrite(r, key, v) ==
  IF is_name(key)
  THEN [thrown |-> TRUE, rsrc |-> r]
  ELSE [thrown |-> FALSE, rsrc |-> [r EXCEPT !.attrs = AttrPut(r.attrs, key, v)]]

\* const value resource::operator[](key) const
ResourceRead(r, key) ==
  IF is_name(key)
  THEN [thrown |-> TRUE, value |-> None]
  ELSE [thrown |-> FALSE, value |-> AttrGet(r.attrs, key)]

\* value& resource::operator[](key) used as an rvalue: the non-const overload
\* goes through std::map::operator[]
ResourceRef(r, key) ==
  IF is_name(key)
  THEN [thrown |-> TRUE, value |-> None, rsrc |-> r]
  ELSE [thrown |-> FALSE, value |-> AttrGet(r.attrs, key),
        rsrc |-> [r EXCEPT !.attrs = AttrRef(r.attrs, key)]]

-----------------------------------------------------------------------------
(* JSON documents of the wire protocol.  An optional member is a sequence   *)
(* of length 0 (absent) or 1 (present).                                     *)

Absent == <<>>
Present(x) == <<x>>
Has(opt) == Len(opt) > 0
The(opt) == opt[1]

\* { "error": { "message": ..., "kind": ... } }, both members optional
ErrEnvs == [message : {None, "m"}, kind : {None, "unknown", "failed"}]

\* a resource object: an optional `name` and string-valued attributes
JObjs == {n @@ a : n \in PartialMaps({"name"}, Names), a \in PartialMaps({"a"}, Values)}

\* one member of the `changes` object; is/was None when the field is missing
ChangeEntries == [key : AttrKeys, is : Values \cup {None}, was : Values \cup {None}]

\* sequences over S of length at most n
SeqsUpTo(S, n) == UNION {[1..m -> S] : m \in 0..n}

\* JSON objects hold each key once
ChangeObjs ==
  {c \in SeqsUpTo(ChangeEntries, MaxChanges) :
     \A i, j \in 1..Len(c) : c[i].key = c[j].key => i = j}

ResourceArrays == SeqsUpTo(JObjs, MaxResources)

Doc(e, r, rs, c) == [error |-> e, resource |-> r, resources |-> rs, changes |-> c]
EmptyDoc == Doc(Absent, Absent, Absent, Absent)

OptErrs == {Absent} \cup {Present(e) : e \in ErrEnvs}

SampleObj == [name |-> "n1", a |-> "x"]
SampleChanges == <<[key |-> "a", is |-> "x", was |-> "y"]>>

\* replies the backend may print for each action
FindDocs ==
  {Doc(Absent, r, Absent, Absent) : r \in {Absent} \cup {Present(o) : o \in JObjs}}
  \cup {Doc(e, r, Absent, Absent) : e \in OptErrs, r \in {Absent, Present(SampleObj)}}
ListDocs ==
  {Doc(Absent, Absent, rs, Absent) : rs \in {Absent} \cup {Present(a) : a \in ResourceArrays}}
  \cup {Doc(e, Absent, rs, Absent) : e \in OptErrs, rs \in {Absent, Present(<<SampleObj>>)}}
UpdateDocs ==
  {Doc(Absent, Absent, Absent, c) : c \in {Absent} \cup {Present(o) : o \in ChangeObjs}}
  \cup {Doc(e, Absent, Absent, c) : e \in OptErrs, c \in {Absent, Present(SampleChanges)}}

ReplyDocs(action) ==
  CASE action = "find" -> FindDocs
    [] action = "list" -> ListDocs
    [] action = "update" -> UpdateDocs

-----------------------------------------------------------------------------
(* The external program: exe::execute's result *)

ExitCodes == {0, 1, 2}
Stderrs == {"", "boom"}

\* what the program printed: nothing, text that is no JSON, or a document
Stdout(kind, doc) == [kind |-> kind, doc |-> doc]
NoOutput == Stdout("empty", EmptyDoc)
Junk == Stdout("junk", EmptyDoc)
output_empty(o) == o.kind = "empty"

ExecResult(code, out, err) ==
  [success |-> (code = 0), exit_code |-> code, output |-> out, error |-> err]

\* a clean exit with any reply of the action; every other exit status and
\* stderr with no output, with non-JSON output and with a document
ExecResults(action) ==
  {ExecResult(0, o, "") : o \in {NoOutput, Junk} \cup {Stdout("json", d) : d \in ReplyDocs(action)}}
  \cup {ExecResult(c, o, e) : c \in ExitCodes, e \in Stderrs,
                             o \in {NoOutput, Junk, Stdout("json", EmptyDoc)}}

-----------------------------------------------------------------------------
(* result<R> and error *)

\* struct error { detail }: the format string and the arguments rendered in it
Detail(fmt, action, status, output, err, arg) ==
  [fmt |-> fmt, action |-> action, status |-> status, output |-> output,
   error |-> err, arg |-> arg]
NoDetail == Detail("", "", "", NoOutput, "", "")

\* result<R>: tag ok with the value, tag err with the error; "throw" is an
\* exception leaving the function instead of a result
Ok(v) == [kind |-> "ok", detail |-> NoDetail, value |-> v]
Err(d, dflt) == [kind |-> "err", detail |-> d, value |-> dflt]
Throw(dflt) == [kind |-> "throw", detail |-> NoDetail, value |-> dflt]

-----------------------------------------------------------------------------
(* json_provider *)

run_action_ignores_stderr(action, res) ==
  IF ~res.success
  THEN Err(Detail("action '{1}' exited with status {2}", action,
                  ToString(res.exit_code), NoOutput, "", ""), EmptyDoc)
  ELSE IF res.output.kind = "json" THEN Ok(res.output.doc) ELSE Throw(EmptyDoc)

run_action_drops_stderr(action, res) ==
  IF ~res.success
  THEN IF output_empty(res.output)
       THEN Err(Detail("action '{1}' exited with status {2}", action,
                       ToString(res.exit_code), NoOutput, "", ""), EmptyDoc)
       ELSE Err(Detail("action '{1}' exited with status {2}. Output was '{3}'", action,
                       ToString(res.exit_code), res.output, "", ""), EmptyDoc)
  ELSE IF res.error # ""
  THEN Err(Detail("action '{1}' produced stderr '{2}'", action, "", NoOutput,
                  res.error, ""), EmptyDoc)
  ELSE IF res.output.kind = "json" THEN Ok(res.output.doc) ELSE Throw(EmptyDoc)

\* json_provider::run_action, given what exe::execute returned
run_action(action, res) ==
  IF ~res.success
  THEN IF output_empty(res.output)
       THEN IF res.error = ""
            THEN Err(Detail("action '{1}' exited with status {2}", action,
                            ToString(res.exit_code), NoOutput, "", ""), EmptyDoc)
            ELSE Err(Detail("action '{1}' exited with status {2}. stderr was '{3}'", action,
                            ToString(res.exit_code), NoOutput, res.error, ""), EmptyDoc)
       ELSE IF res.error = ""
            THEN Err(Detail("action '{1}' exited with status {2}. Output was '{3}'", action,
                            ToString(res.exit_code), res.output, "", ""), EmptyDoc)
            ELSE Err(Detail("action '{1}' exited with status {2}. Output was '{3}'. stderr was '{4}'",
                            action, ToString(res.exit_code), res.output, res.error, ""), EmptyDoc)
  ELSE IF res.error # ""
  THEN Err(Detail("action '{1}' produced stderr '{2}'", action, "", NoOutput,
                  res.error, ""), EmptyDoc)
  \* json::JsonContainer(res.output) throws on text that is no JSON document
  ELSE IF res.output.kind = "json" THEN Ok(res.output.doc) ELSE Throw(EmptyDoc)

\* json_provider::contains_error: the return value and the two out-parameters
contains_error(json) ==
  IF Has(json.error)
  THEN [res |-> TRUE,
        message |-> IF The(json.error).message = None THEN "" ELSE The(json.error).message,
        kind |-> IF The(json.error).kind = None THEN "failed" ELSE The(json.error).kind]
  ELSE [res |-> FALSE, message |-> "", kind |-> ""]

\* json_provider::create: a json_resource of that name, nothing else
create(name) == NewResource(name)

NoResource == NewResource(None)

\* the loop of resource_from_json over json.keys()
RECURSIVE FromJsonLoop(_, _, _)
FromJsonLoop(r, json, ks) ==
  IF ks = <<>> THEN r
  ELSE LET k == Head(ks) IN
       IF k = "name" THEN FromJsonLoop(r, json, Tail(ks))
       ELSE FromJsonLoop(ResourceWrite(r, k, json[k]).rsrc, json, Tail(ks))

resource_from_json_drops_attrs(json) ==
  IF "name" \notin DOMAIN json
  THEN Err(Detail("resource does not have a name", "", "", NoOutput, "", ""), NoResource)
  ELSE Ok(create(json["name"]))

\* json_provider::resource_from_json
resource_from_json(json) ==
  IF "name" \notin DOMAIN json
  THEN Err(Detail("resource does not have a name", "", "", NoOutput, "", ""), NoResource)
  ELSE Ok(FromJsonLoop(create(json["name"]), json, SortedKeys(DOMAIN json)))

\* value::to_string of a string value is the string; of boost::none, nothing
to_string(v) == IF v = None THEN "" ELSE v

\* the request document: ral.noop, resource.name, then resource.<k> for each k of should
RECURSIVE RequestLoop(_, _, _)
RequestLoop(m, should, ks) ==
  IF ks = <<>> THEN m
  ELSE RequestLoop(AttrPut(m, Head(ks), to_string(should[Head(ks)])), should, Tail(ks))

UpdateRequest(r, should) ==
  [noop |-> FALSE,
   resource |-> RequestLoop([k \in {"name"} |-> r.name], should, SortedKeys(DOMAIN should))]

FindRequest(name) == [noop |-> FALSE, resource |-> [k \in {"name"} |-> name]]
ListRequest == [noop |-> FALSE, resource |-> EmptyMap]

\* one exe::execute: the action and the request fed to the program
Invocation(action, request) == [action |-> action, request |-> request]

\* the loop of update over json_chgs.keys(): the malformed entry's error, or the changes
RECURSIVE ChangesLoop(_, _)
ChangesLoop(chgs, json_chgs) ==
  IF json_chgs = <<>> THEN Ok(chgs)
  ELSE LET e == Head(json_chgs) IN
       IF e.is = None
       THEN Err(Detail("malformed change: entry for {1} does not contain 'is'",
                       "", "", NoOutput, "", e.key), <<>>)
       ELSE IF e.was = None
       THEN Err(Detail("malformed change: entry for {1} does not contain 'was'",
                       "", "", NoOutput, "", e.key), <<>>)
       ELSE ChangesLoop(changes_add(chgs, e.key, e.is, e.was), Tail(json_chgs))

\* the loop of update over should: operator[](s.first) = s.second, but for "name"
RECURSIVE ApplyShould(_, _, _)
ApplyShould(r, should, ks) ==
  IF ks = <<>> THEN r
  ELSE LET k == Head(ks) IN
       IF k # "name"
       THEN ApplyShould(ResourceWrite(r, k, should[k]).rsrc, should, Tail(ks))
       ELSE ApplyShould(r, should, Tail(ks))

\* what one operation did: what it returned, the resource it was called on
\* afterwards, what it logged and what it ran
Outcome(result, rsrc, log, invoked) ==
  [result |-> result, rsrc |-> rsrc, log |-> log, invoked |-> invoked]

update_applies_first(r, should, res) ==
  LET inv == <<Invocation("update", UpdateRequest(r, should))>>
      out == run_action("update", res)
      applied == ApplyShould(r, should, SortedKeys(DOMAIN should))
  IN IF out.kind = "throw" THEN Outcome(Throw(<<>>), applied, <<>>, inv)
     ELSE IF out.kind = "err" THEN Outcome(Err(out.detail, <<>>), applied, <<"error">>, inv)
     ELSE LET ce == contains_error(out.value) IN
          IF ce.res
          THEN Outcome(Err(Detail("update failed: {1}", "", "", NoOutput, "", ce.message), <<>>),
                       applied, <<>>, inv)
          ELSE IF ~Has(out.value.changes) THEN Outcome(Ok(<<>>), applied, <<>>, inv)
          ELSE Outcome(ChangesLoop(<<>>, The(out.value.changes)), applied, <<>>, inv)

update_tolerates_malformed(r, should, res) ==
  LET inv == <<Invocation("update", UpdateRequest(r, should))>>
      out == run_action("update", res)
  IN IF out.kind = "throw" THEN Outcome(Throw(<<>>), r, <<>>, inv)
     ELSE IF out.kind = "err" THEN Outcome(Err(out.detail, <<>>), r, <<"error">>, inv)
     ELSE LET ce == contains_error(out.value) IN
          IF ce.res
          THEN Outcome(Err(Detail("update failed: {1}", "", "", NoOutput, "", ce.message), <<>>),
                       r, <<>>, inv)
          ELSE IF ~Has(out.value.changes) THEN Outcome(Ok(<<>>), r, <<>>, inv)
          ELSE LET res2 == ChangesLoop(<<>>, The(out.value.changes)) IN
               Outcome(Ok(res2.value), ApplyShould(r, should, SortedKeys(DOMAIN should)),
                       <<>>, inv)

\* json_provider::json_resource::update on resource r
update(r, should, res) ==
  LET inv == <<Invocation("update", UpdateRequest(r, should))>>
      out == run_action("update", res)
  IN IF out.kind = "throw" THEN Outcome(Throw(<<>>), r, <<>>, inv)
     ELSE IF out.kind = "err" THEN Outcome(Err(out.detail, <<>>), r, <<"error">>, inv)
     ELSE LET ce == contains_error(out.value) IN
          IF ce.res
          THEN Outcome(Err(Detail("update failed: {1}", "", "", NoOutput, "", ce.message), <<>>),
                       r, <<>>, inv)
          ELSE IF ~Has(out.value.changes) THEN Outcome(Ok(<<>>), r, <<>>, inv)
          ELSE LET res2 == ChangesLoop(<<>>, The(out.value.changes)) IN
               IF res2.kind = "err" THEN Outcome(res2, r, <<>>, inv)
               ELSE Outcome(res2, ApplyShould(r, should, SortedKeys(DOMAIN should)), <<>>, inv)

\* boost::optional<std::unique_ptr<resource>> and std::vector<...>: the resources returned
Some(r) == [kind |-> "some", detail |-> NoDetail, value |-> <<r>>]
NoneFound == [kind |-> "none", detail |-> NoDetail, value |-> <<>>]
Vector(rs) == [kind |-> "list", detail |-> NoDetail, value |-> rs]

find_trusts_backend(name, res, missing_throws) ==
  LET inv == <<Invocation("find", FindRequest(name))>>
      out == run_action("find", res)
  IN IF out.kind = "throw" THEN Outcome(Throw(<<>>), NoResource, <<>>, inv)
     ELSE IF out.kind = "err" THEN Outcome(NoneFound, NoResource, <<"error">>, inv)
     ELSE LET ce == contains_error(out.value) IN
          IF ce.res
          THEN IF ce.kind = "unknown"
               THEN Outcome(NoneFound, NoResource, <<>>, inv)
               ELSE Outcome(NoneFound, NoResource, <<"warning">>, inv)
          ELSE IF ~Has(out.value.resource) /\ missing_throws
          THEN Outcome(Throw(<<>>), NoResource, <<>>, inv)
          ELSE LET json_rsrc == IF Has(out.value.resource) THEN The(out.value.resource)
                                ELSE EmptyMap
                   rsrc == resource_from_json(json_rsrc)
               IN IF rsrc.kind = "err" THEN Outcome(NoneFound, NoResource, <<"error">>, inv)
                  ELSE Outcome(Some(rsrc.value), NoResource, <<>>, inv)

find_logs_every_error(name, res, missing_throws) ==
  LET inv == <<Invocation("find", FindRequest(name))>>
      out == run_action("find", res)
  IN IF out.kind = "throw" THEN Outcome(Throw(<<>>), NoResource, <<>>, inv)
     ELSE IF out.kind = "err" THEN Outcome(NoneFound, NoResource, <<"error">>, inv)
     ELSE LET ce == contains_error(out.value) IN
          IF ce.res
          THEN Outcome(NoneFound, NoResource, <<"error">>, inv)
          ELSE IF ~Has(out.value.resource) /\ missing_throws
          THEN Outcome(Throw(<<>>), NoResource, <<>>, inv)
          ELSE LET json_rsrc == IF Has(out.value.resource) THEN The(out.value.resource)
                                ELSE EmptyMap
                   rsrc == resource_from_json(json_rsrc)
               IN IF rsrc.kind = "err" THEN Outcome(NoneFound, NoResource, <<"error">>, inv)
                  ELSE IF rsrc.value.name # name
                  THEN Outcome(NoneFound, NoResource, <<"error">>, inv)
                  ELSE Outcome(Some(rsrc.value), NoResource, <<>>, inv)

\* json_provider::find.  out->get("resource") on a reply without that member
\* either throws or yields an empty container, as the JSON library decides
find(name, res, missing_throws) ==
  LET inv == <<Invocation("find", FindRequest(name))>>
      out == run_action("find", res)
  IN IF out.kind = "throw" THEN Outcome(Throw(<<>>), NoResource, <<>>, inv)
     ELSE IF out.kind = "err" THEN Outcome(NoneFound, NoResource, <<"error">>, inv)
     ELSE LET ce == contains_error(out.value) IN
          IF ce.res
          THEN IF ce.kind = "unknown"
               THEN Outcome(NoneFound, NoResource, <<>>, inv)
               ELSE Outcome(NoneFound, NoResource, <<"warning">>, inv)
          ELSE IF ~Has(out.value.resource) /\ missing_throws
          THEN Outcome(Throw(<<>>), NoResource, <<>>, inv)
          ELSE LET json_rsrc == IF Has(out.value.resource) THEN The(out.value.resource)
                                ELSE EmptyMap
                   rsrc == resource_from_json(json_rsrc)
               IN IF rsrc.kind = "err" THEN Outcome(NoneFound, NoResource, <<"error">>, inv)
                  ELSE IF rsrc.value.name # name
                  THEN Outcome(NoneFound, NoResource, <<"error">>, inv)
                  ELSE Outcome(Some(rsrc.value), NoResource, <<>>, inv)

\* the loop of instances over json_rsrcs: a failed conversion logs and returns
\* the vector as filled so far
RECURSIVE InstancesLoop(_, _)
InstancesLoop(result, json_rsrcs) ==
  IF json_rsrcs = <<>> THEN [rsrcs |-> result, log |-> <<>>]
  ELSE LET rsrc == resource_from_json(Head(json_rsrcs)) IN
       IF rsrc.kind = "err" THEN [rsrcs |-> result, log |-> <<"error">>]
       ELSE InstancesLoop(Append(result, rsrc.value), Tail(json_rsrcs))

instances_retries(res) ==
  LET once == <<Invocation("list", ListRequest)>>
      out == run_action("list", res)
  IN IF out.kind = "throw" THEN Outcome(Throw(<<>>), NoResource, <<>>, once)
     ELSE IF out.kind = "err" THEN Outcome(Vector(<<>>), NoResource, <<"error">>, once \o once)
     ELSE LET ce == contains_error(out.value) IN
          IF ce.res THEN Outcome(Vector(<<>>), NoResource, <<"error">>, once)
          ELSE IF ~Has(out.value.resources)
          THEN Outcome(Vector(<<>>), NoResource, <<"error">>, once)
          ELSE LET l == InstancesLoop(<<>>, The(out.value.resources))
               IN Outcome(Vector(l.rsrcs), NoResource, l.log, once)

\* json_provider::instances
instances(res) ==
  LET inv == <<Invocation("list", ListRequest)>>
      out == run_action("list", res)
  IN IF out.kind = "throw" THEN Outcome(Throw(<<>>), NoResource, <<>>, inv)
     ELSE IF out.kind = "err" THEN Outcome(Vector(<<>>), NoResource, <<"error">>, inv)
     ELSE LET ce == contains_error(out.value) IN
          IF ce.res THEN Outcome(Vector(<<>>), NoResource, <<"error">>, inv)
          ELSE IF ~Has(out.value.resources)
          THEN Outcome(Vector(<<>>), NoResource, <<"error">>, inv)
          ELSE LET l == InstancesLoop(<<>>, The(out.value.resources))
               IN Outcome(Vector(l.rsrcs), NoResource, l.log, inv)

\* the scan of provider::find over instances()
RECURSIVE FirstNamed(_, _)
FirstNamed(insts, name) ==
  IF insts = <<>> THEN NoneFound
  ELSE IF Head(insts).name = name THEN Some(Head(insts))
  ELSE FirstNamed(Tail(insts), name)

\* provider::find, the default, on top of this provider's instances()
provider_find(name, res) ==
  LET insts == instances(res)
  IN IF insts.result.kind = "throw" THEN insts
     ELSE Outcome(FirstNamed(insts.result.value, name), NoResource, insts.log, insts.invoked)

\* resource::check: the change set and the resource after it, or the
\* invalid_argument of operator[] leaving it
RECURSIVE check(_, _, _, _)
check(r, chgs, should, props) ==
  IF props = <<>> THEN [thrown |-> FALSE, rsrc |-> r, chgs |-> chgs]
  ELSE LET prop == Head(props) IN
       IF is_present(AttrGet(should, prop))
       THEN LET ref == ResourceRef(r, prop) IN
            IF ref.thrown THEN [thrown |-> TRUE, rsrc |-> r, chgs |-> chgs]
            ELSE IF ref.value # AttrGet(should, prop)
            THEN check(ref.rsrc, changes_add(chgs, prop, AttrGet(should, prop), ref.value),
                       should, Tail(props))
            ELSE check(ref.rsrc, chgs, should, Tail(props))
       ELSE check(r, chgs, should, Tail(props))

-----------------------------------------------------------------------------
(* Provider metadata, describe, suitable, prepare, parse *)

\* the metadata node of the provider: whether its `provider` entry is a map,
\* and that map's `suitable` scalar (None when there is none)
Node(is_map, s) == [is_map |-> is_map, suitable |-> s]
Nodes == {Node(FALSE, None)} \cup {Node(TRUE, s) : s \in {None, "true", "false", "maybe"}}

\* prov::spec: the attributes a provider has, each with its type
Types == {"string", "boolean"}
ProvSpecs == PartialMaps(AttrKeys, Types)
EmptySpec == [k \in {} |-> "string"]

\* what prov::spec::read, and so describe(), may return
DescribeResults ==
  {Ok(sp) : sp \in ProvSpecs}
  \cup {Err(Detail("could not read metadata", "", "", NoOutput, "", ""), EmptySpec)}

\* json_provider::describe: prov::spec::read(_path, _node), nothing else
describe(read) == Outcome(read, NoResource, <<>>, <<>>)

suitable_dispatched(node) ==
  LET inv == <<Invocation("suitable", ListRequest)>> IN
  IF ~node.is_map
  THEN Outcome(Err(Detail("expected 'provider' key in metadata to contain a map",
                          "", "", NoOutput, "", ""), FALSE), NoResource, <<>>, inv)
  ELSE IF node.suitable = None THEN Outcome(Throw(FALSE), NoResource, <<>>, inv)
  ELSE IF node.suitable # "true" /\ node.suitable # "false"
  THEN Outcome(Err(Detail("provider {1} (simple): metadata 'suitable' must be either 'true' or 'false' but was '{2}'",
                          "", "", NoOutput, "", node.suitable), FALSE), NoResource, <<>>, inv)
  ELSE Outcome(Ok(node.suitable = "true"), NoResource, <<>>, inv)

\* json_provider::suitable.  as<std::string>() of a missing scalar throws
suitable(node) ==
  IF ~node.is_map
  THEN Outcome(Err(Detail("expected 'provider' key in metadata to contain a map",
                          "", "", NoOutput, "", ""), FALSE), NoResource, <<>>, <<>>)
  ELSE IF node.suitable = None THEN Outcome(Throw(FALSE), NoResource, <<>>, <<>>)
  ELSE IF node.suitable # "true" /\ node.suitable # "false"
  THEN Outcome(Err(Detail("provider {1} (simple): metadata 'suitable' must be either 'true' or 'false' but was '{2}'",
                          "", "", NoOutput, "", node.suitable), FALSE), NoResource, <<>>, <<>>)
  ELSE Outcome(Ok(node.suitable = "true"), NoResource, <<>>, <<>>)

prepare_stores_anyway(spec, res) ==
  IF res.kind = "err"
  THEN [result |-> Err(res.detail, FALSE), spec |-> Present(EmptySpec)]
  ELSE [result |-> Ok(TRUE), spec |-> Present(res.value)]

\* provider::prepare, given what describe() returned: the result and _spec after it
prepare(spec, res) ==
  IF res.kind = "err"
  THEN [result |-> Err(res.detail, FALSE), spec |-> spec]
  ELSE [result |-> Ok(TRUE), spec |-> Present(res.value)]

\* attr_spec::read_string: the text as a value of the attribute's type
read_string(type, v) ==
  IF type = "boolean" /\ v # "true" /\ v # "false"
  THEN Err(Detail("invalid value for a boolean", "", "", NoOutput, "", v), None)
  ELSE Ok(v)

\* provider::parse
parse(spec, name, v) ==
  IF ~Has(spec)
  THEN Err(Detail("internal error: spec was not initialized", "", "", NoOutput, "", ""), None)
  ELSE IF name \notin DOMAIN The(spec)
  THEN Err(Detail("there is no attribute '{1}'", "", "", NoOutput, "", name), None)
  ELSE read_string(The(spec)[name], v)

-----------------------------------------------------------------------------
(* The caller: inputs of the calls *)

\* desired attribute maps; some name the identity too
Shoulds == {n @@ a : n \in PartialMaps({"name"}, {"n2"}), a \in PartialMaps(AttrKeys, Values)}
PropLists == SeqsUpTo(Keys, MaxProps)
\* the change set handed to check: empty, or already holding an entry
PriorChanges == {<<>>, <<change("b", "y", "x")>>}

NoExec == ExecResult(0, NoOutput, "")

\* storage for a result<R> in which no object lives
NoResult ==
  [live |-> FALSE, tag |-> "err", ok_live |-> FALSE, err_live |-> FALSE,
   okv |-> None, errv |-> None]

\* the call in progress or just returned: its operation and arguments, the
\* handle it was made on (pre), and what the external program did
NoCall ==
  [op |-> "idle", name |-> None, key |-> None, value |-> None, should |-> EmptyMap,
   props |-> <<>>, chgs |-> <<>>, exec |-> NoExec, pre |-> <<>>,
   node |-> Node(FALSE, None), read |-> Ok(EmptySpec), text |-> "",
   id |-> 0, other |-> 0]

\* what the call returned (kind, detail, chgs, rsrcs, value), logged and ran
NoRet ==
  [kind |-> "idle", detail |-> NoDetail, chgs |-> <<>>, rsrcs |-> <<>>, value |-> None,
   log |-> <<>>, invoked |-> <<>>, flag |-> FALSE]

Idle == call.op = "idle"

Init ==
  /\ held = <<>>
  /\ call = NoCall
  /\ ret = NoRet
  /\ p_spec = Absent
  /\ objs = [i \in 1..MaxResults |-> NoResult]
  /\ fault = {}

\* prov.create(name)
Create ==
  /\ Idle
  /\ \E name \in Names :
       /\ call' = [NoCall EXCEPT !.op = "create", !.name = name, !.pre = held]
       /\ ret' = [NoRet EXCEPT !.kind = "some", !.rsrcs = <<create(name)>>]
  /\ UNCHANGED <<held, p_spec, objs, fault>>

\* prov.flush()
Flush ==
  /\ Idle
  /\ call' = [NoCall EXCEPT !.op = "flush", !.pre = held]
  /\ ret' = [NoRet EXCEPT !.kind = "void"]
  /\ UNCHANGED <<held, p_spec, objs, fault>>

\* prov.find(name) on a json_provider
Find ==
  /\ Idle
  /\ \E name \in Names, res \in ExecResults("find"), missing_throws \in BOOLEAN :
       LET o == find(name, res, missing_throws) IN
       /\ call' = [NoCall EXCEPT !.op = "find", !.name = name, !.exec = res, !.pre = held]
       /\ ret' = [NoRet EXCEPT !.kind = o.result.kind, !.rsrcs = o.result.value,
                               !.log = o.log, !.invoked = o.invoked]
  /\ UNCHANGED <<held, p_spec, objs, fault>>

\* prov.provider::find(name): the base class's find
DefaultFind ==
  /\ Idle
  /\ \E name \in Names, res \in ExecResults("list") :
       LET o == provider_find(name, res) IN
       /\ call' = [NoCall EXCEPT !.op = "provider_find", !.name = name, !.exec = res,
                                 !.pre = held]
       /\ ret' = [NoRet EXCEPT !.kind = o.result.kind, !.rsrcs = o.result.value,
                               !.log = o.log, !.invoked = o.invoked]
  /\ UNCHANGED <<held, p_spec, objs, fault>>

\* prov.instances()
Instances ==
  /\ Idle
  /\ \E res \in ExecResults("list") :
       LET o == instances(res) IN
       /\ call' = [NoCall EXCEPT !.op = "instances", !.exec = res, !.pre = held]
       /\ ret' = [NoRet EXCEPT !.kind = o.result.kind, !.rsrcs = o.result.value,
                               !.log = o.log, !.invoked = o.invoked]
  /\ UNCHANGED <<held, p_spec, objs, fault>>

\* held->update(should)
Update ==
  /\ Idle
  /\ held # <<>>
  /\ \E should \in Shoulds, res \in ExecResults("update") :
       LET o == update(held[1], should, res) IN
       /\ call' = [NoCall EXCEPT !.op = "update", !.should = should, !.exec = res,
                                 !.pre = held]
       /\ ret' = [NoRet EXCEPT !.kind = o.result.kind, !.detail = o.result.detail,
                               !.chgs = o.result.value, !.log = o.log,
                               !.invoked = o.invoked]
       /\ held' = <<o.rsrc>>
  /\ UNCHANGED <<p_spec, objs, fault>>

\* held->check(chgs, should, props)
Check ==
  /\ Idle
  /\ held # <<>>
  /\ \E chgs \in PriorChanges, should \in Shoulds, props \in PropLists :
       LET o == check(held[1], chgs, should, props) IN
       /\ call' = [NoCall EXCEPT !.op = "check", !.should = should, !.props = props,
                                 !.chgs = chgs, !.pre = held]
       /\ ret' = [NoRet EXCEPT !.kind = IF o.thrown THEN "throw" ELSE "void",
                               !.chgs = o.chgs]
       /\ held' = <<o.rsrc>>
  /\ UNCHANGED <<p_spec, objs, fault>>

\* v = (*held)[key] through a const reference
Read ==
  /\ Idle
  /\ held # <<>>
  /\ \E key \in Keys :
       LET o == ResourceRead(held[1], key) IN
       /\ call' = [NoCall EXCEPT !.op = "read", !.key = key, !.pre = held]
       /\ ret' = [NoRet EXCEPT !.kind = IF o.thrown THEN "throw" ELSE "ok",
                               !.value = o.value]
  /\ UNCHANGED <<held, p_spec, objs, fault>>

\* (*held)[key] = v
Write ==
  /\ Idle
  /\ held # <<>>
  /\ \E key \in Keys, v \in Values \cup {None} :
       LET o == ResourceWrite(held[1], key, v) IN
       /\ call' = [NoCall EXCEPT !.op = "write", !.key = key, !.value = v, !.pre = held]
       /\ ret' = [NoRet EXCEPT !.kind = IF o.thrown THEN "throw" ELSE "void"]
       /\ held' = <<o.rsrc>>
  /\ UNCHANGED <<p_spec, objs, fault>>

\* prov.suitable() on a json_provider constructed with metadata node
Suitable ==
  /\ Idle
  /\ \E node \in Nodes :
       LET o == suitable(node) IN
       /\ call' = [NoCall EXCEPT !.op = "suitable", !.node = node, !.pre = held]
       /\ ret' = [NoRet EXCEPT !.kind = o.result.kind, !.detail = o.result.detail,
                               !.flag = o.result.value, !.invoked = o.invoked]
  /\ UNCHANGED <<held, p_spec, objs, fault>>

\* prov.describe() on a json_provider whose metadata reads as `read`
Describe ==
  /\ Idle
  /\ \E read \in DescribeResults :
       LET o == describe(read) IN
       /\ call' = [NoCall EXCEPT !.op = "describe", !.read = read, !.pre = held]
       /\ ret' = [NoRet EXCEPT !.kind = o.result.kind, !.detail = o.result.detail,
                               !.invoked = o.invoked]
  /\ UNCHANGED <<held, p_spec, objs, fault>>

\* the caller lets what was returned go out of scope
Discard ==
  /\ ~Idle
  /\ call' = NoCall
  /\ ret' = NoRet
  /\ UNCHANGED <<held, p_spec, objs, fault>>

\* the caller moves a returned resource into its handle; the old one is destroyed
Keep ==
  /\ ~Idle
  /\ \E i \in 1..Len(ret.rsrcs) : held' = <<ret.rsrcs[i]>>
  /\ call' = NoCall
  /\ ret' = NoRet
  /\ UNCHANGED <<p_spec, objs, fault>>

Next ==
  \/ Create \/ Flush \/ Find \/ DefaultFind \/ Instances
  \/ Update \/ Check \/ Read \/ Write
  \/ Suitable \/ Describe
  \/ Discard \/ Keep

Spec == Init /\ [][Next]_vars

-----------------------------------------------------------------------------
(* run_action on its own: every action and every result of the external     *)
(* program, then the one call                                               *)

Actions == {"find", "list", "update"}

InitRun ==
  /\ held = <<>>
  /\ ret = NoRet
  /\ p_spec = Absent
  /\ objs = [i \in 1..MaxResults |-> NoResult]
  /\ fault = {}
  /\ \E action \in Actions :
       \E res \in ExecResults(action) :
         call = [NoCall EXCEPT !.op = "run_action", !.name = action, !.exec = res]

\* prov.run_action(action, json)
RunAction ==
  /\ call.op = "run_action"
  /\ ret.kind = "idle"
  /\ LET out == run_action(call.name, call.exec) IN
       ret' = [NoRet EXCEPT !.kind = out.kind, !.detail = out.detail]
  /\ UNCHANGED <<held, call, p_spec, objs, fault>>

NextRun == RunAction

SpecRun == InitRun /\ [][NextRun]_vars

-----------------------------------------------------------------------------
(* provider::prepare and provider::parse on their own: _spec is the state   *)

ParseNames == Keys
ParseTexts == {"x", "true", "false"}

\* prov.prepare(), describe() returning `read`
Prepare ==
  /\ Idle
  /\ \E read \in DescribeResults :
       LET o == prepare(p_spec, read) IN
       /\ call' = [NoCall EXCEPT !.op = "prepare", !.read = read]
       /\ ret' = [NoRet EXCEPT !.kind = o.result.kind, !.detail = o.result.detail,
                               !.flag = o.result.value]
       /\ p_spec' = o.spec
  /\ UNCHANGED <<held, objs, fault>>

\* prov.parse(name, text)
Parse ==
  /\ Idle
  /\ \E name \in ParseNames, v \in ParseTexts :
       LET o == parse(p_spec, name, v) IN
       /\ call' = [NoCall EXCEPT !.op = "parse", !.name = name, !.text = v]
       /\ ret' = [NoRet EXCEPT !.kind = o.kind, !.detail = o.detail, !.value = o.value]
  /\ UNCHANGED <<held, p_spec, objs, fault>>

NextPrepare == Prepare \/ Parse \/ Discard

SpecPrepare == Init /\ [][NextPrepare]_vars

-----------------------------------------------------------------------------
(* result<R> (result.hpp): a tag and a union of the two payloads.  An       *)
(* object records which payload has been constructed and not yet destroyed; *)
(* a step on a payload outside its lifetime is undefined behaviour, noted   *)
(* in `faults`, after which the program either aborts or carries on with    *)
(* the union as the code's bookkeeping leaves it.                           *)

Ids == 1..MaxResults
ErrDetails == {"e1", "e2"}        \* error::detail

\* the object and the faults of the step so far
Step(o, faults) == [obj |-> o, faults |-> faults]

\* storage before a constructor body runs: _tag holds whatever was there
Uninitialized(garbage) == [NoResult EXCEPT !.live = TRUE, !.tag = garbage]

\* result(const R& ok) : _tag(tag::ok), _ok(ok)
result_ok(v) == [NoResult EXCEPT !.live = TRUE, !.tag = "ok", !.ok_live = TRUE, !.okv = v]

\* result(const error& err) : _tag(tag::err), _err(err)
result_err(e) == [NoResult EXCEPT !.live = TRUE, !.tag = "err", !.err_live = TRUE, !.errv = e]

\* _ok.~R()
destroy_ok(s) ==
  Step([s.obj EXCEPT !.ok_live = FALSE, !.okv = None],
       s.faults \cup IF s.obj.ok_live THEN {} ELSE {"destroys a payload never constructed"})

\* _err.~error()
destroy_err(s) ==
  Step([s.obj EXCEPT !.err_live = FALSE, !.errv = None],
       s.faults \cup IF s.obj.err_live THEN {} ELSE {"destroys a payload never constructed"})

\* new (&_ok) R(ok)
construct_ok(s, v) ==
  Step([s.obj EXCEPT !.ok_live = TRUE, !.okv = v],
       s.faults \cup IF s.obj.ok_live \/ s.obj.err_live
                     THEN {"constructs over a live payload"} ELSE {})

\* new (&_err) error(err)
construct_err(s, e) ==
  Step([s.obj EXCEPT !.err_live = TRUE, !.errv = e],
       s.faults \cup IF s.obj.ok_live \/ s.obj.err_live
                     THEN {"constructs over a live payload"} ELSE {})

\* _ok = ok
set_ok(s, v) ==
  Step([s.obj EXCEPT !.ok_live = TRUE, !.okv = v],
       s.faults \cup IF s.obj.ok_live THEN {} ELSE {"assigns into a payload never constructed"})

\* _err = err
set_err(s, e) ==
  Step([s.obj EXCEPT !.err_live = TRUE, !.errv = e],
       s.faults \cup IF s.obj.err_live THEN {} ELSE {"assigns into a payload never constructed"})

\* assign(const error&) and assign(error&&)
assign_error(s, e) ==
  LET t == IF s.obj.tag = "ok" THEN construct_err(destroy_ok(s), e) ELSE set_err(s, e)
  IN  Step([t.obj EXCEPT !.tag = "err"], t.faults)

\* assign(const R&) and assign(R&&)
assign_ok(s, v) ==
  LET t == IF s.obj.tag = "ok" THEN set_ok(s, v) ELSE construct_ok(destroy_err(s), v)
  IN  Step([t.obj EXCEPT !.tag = "ok"], t.faults)

\* assign(const result&); assign(result&&) is never selected, every caller
\* passing its parameter as an lvalue
assign_result(s, other) ==
  IF other.tag = "ok" THEN assign_ok(s, other.okv) ELSE assign_error(s, other.errv)

\* ~result()
destroy(o) ==
  LET t == IF o.tag = "ok" THEN destroy_ok(Step(o, {})) ELSE destroy_err(Step(o, {}))
  IN  Step(NoResult, t.faults)

\* is_ok(), operator bool
is_ok(o) == o.tag = "ok"

\* is_err(), operator!
is_err(o) == o.tag = "err"

\* ok(): an optional reference to the value
ok(o) == IF is_ok(o) THEN Present(o.okv) ELSE Absent

\* err(): an optional reference to the error
err(o) == IF is_err(o) THEN Present(o.errv) ELSE Absent

deref_unchecked(o) == Ok(o.okv)

\* operator*: the value, or std::logic_error thrown
deref(o) ==
  IF is_ok(o)
  THEN Ok(o.okv)
  ELSE [Throw(None) EXCEPT
          !.detail = Detail("attempt to get ok value from err: {1}", "", "", NoOutput, "",
                            o.errv)]

Running == "aborted" \notin fault

\* a step on objs[i] returns: with faults the program may also abort
Finish(op, i, j, v, s) ==
  /\ call' = [NoCall EXCEPT !.op = op, !.id = i, !.other = j, !.value = v]
  /\ \/ /\ objs' = [objs EXCEPT ![i] = s.obj]
        /\ fault' = s.faults
        /\ ret' = [NoRet EXCEPT !.kind = "void"]
     \/ /\ s.faults # {}
        /\ objs' = objs
        /\ fault' = s.faults \cup {"aborted"}
        /\ ret' = [NoRet EXCEPT !.kind = "abort"]
  /\ UNCHANGED <<held, p_spec>>

\* result<R> r(v)
ConstructOk ==
  /\ Idle /\ Running
  /\ \E i \in Ids, v \in Values :
       /\ ~objs[i].live
       /\ Finish("result_ok", i, 0, v, Step(result_ok(v), {}))

\* result<R> r(error(e))
ConstructErr ==
  /\ Idle /\ Running
  /\ \E i \in Ids, e \in ErrDetails :
       /\ ~objs[i].live
       /\ Finish("result_err", i, 0, e, Step(result_err(e), {}))

\* result<R> r(other): result(const result& other) { assign(other); }
CopyConstruct ==
  /\ Idle /\ Running
  /\ \E i \in Ids, j \in Ids, garbage \in {"ok", "err"} :
       /\ ~objs[i].live /\ objs[j].live
       /\ Finish("copy_construct", i, j, None,
                 assign_result(Step(Uninitialized(garbage), {}), objs[j]))

\* result<R> r(std::move(other)): result(result&& other) { assign(other); }
MoveConstruct ==
  /\ Idle /\ Running
  /\ \E i \in Ids, j \in Ids, garbage \in {"ok", "err"} :
       /\ ~objs[i].live /\ objs[j].live
       /\ Finish("move_construct", i, j, None,
                 assign_result(Step(Uninitialized(garbage), {}), objs[j]))

\* r = other: operator=(const result&)
Assign ==
  /\ Idle /\ Running
  /\ \E i \in Ids, j \in Ids :
       /\ objs[i].live /\ objs[j].live
       /\ Finish("assign", i, j, None, assign_result(Step(objs[i], {}), objs[j]))

\* r = std::move(other): operator=(result&&)
MoveAssign ==
  /\ Idle /\ Running
  /\ \E i \in Ids, j \in Ids :
       /\ objs[i].live /\ objs[j].live
       /\ Finish("move_assign", i, j, None, assign_result(Step(objs[i], {}), objs[j]))

\* r = error(e): operator=(const error&)
AssignError ==
  /\ Idle /\ Running
  /\ \E i \in Ids, e \in ErrDetails :
       /\ objs[i].live
       /\ Finish("assign_error", i, 0, e, assign_error(Step(objs[i], {}), e))

\* r goes out of scope: ~result()
Destroy ==
  /\ Idle /\ Running
  /\ \E i \in Ids :
       /\ objs[i].live
       /\ Finish("destroy", i, 0, None, destroy(objs[i]))

\* r.is_ok()
IsOk ==
  /\ Idle /\ Running
  /\ \E i \in Ids :
       /\ objs[i].live
       /\ call' = [NoCall EXCEPT !.op = "is_ok", !.id = i]
       /\ ret' = [NoRet EXCEPT !.kind = "ok", !.flag = is_ok(objs[i])]
  /\ UNCHANGED <<held, p_spec, objs, fault>>

\* r.is_err()
IsErr ==
  /\ Idle /\ Running
  /\ \E i \in Ids :
       /\ objs[i].live
       /\ call' = [NoCall EXCEPT !.op = "is_err", !.id = i]
       /\ ret' = [NoRet EXCEPT !.kind = "ok", !.flag = is_err(objs[i])]
  /\ UNCHANGED <<held, p_spec, objs, fault>>

\* r.ok()
OkRef ==
  /\ Idle /\ Running
  /\ \E i \in Ids :
       /\ objs[i].live
       /\ call' = [NoCall EXCEPT !.op = "ok", !.id = i]
       /\ ret' = IF Has(ok(objs[i]))
                 THEN [NoRet EXCEPT !.kind = "some", !.value = The(ok(objs[i]))]
                 ELSE [NoRet EXCEPT !.kind = "none"]
  /\ UNCHANGED <<held, p_spec, objs, fault>>

\* r.err()
ErrRef ==
  /\ Idle /\ Running
  /\ \E i \in Ids :
       /\ objs[i].live
       /\ call' = [NoCall EXCEPT !.op = "err", !.id = i]
       /\ ret' = IF Has(err(objs[i]))
                 THEN [NoRet EXCEPT !.kind = "some", !.value = The(err(objs[i]))]
                 ELSE [NoRet EXCEPT !.kind = "none"]
  /\ UNCHANGED <<held, p_spec, objs, fault>>

\* *r
Deref ==
  /\ Idle /\ Running
  /\ \E i \in Ids :
       /\ objs[i].live
       /\ LET o == deref(objs[i]) IN
          /\ call' = [NoCall EXCEPT !.op = "deref", !.id = i]
          /\ ret' = [NoRet EXCEPT !.kind = o.kind, !.detail = o.detail, !.value = o.value]
  /\ UNCHANGED <<held, p_spec, objs, fault>>

NextResult ==
  \/ ConstructOk \/ ConstructErr \/ CopyConstruct \/ MoveConstruct
  \/ Assign \/ MoveAssign \/ AssignError \/ Destroy
  \/ IsOk \/ IsErr \/ OkRef \/ ErrRef \/ Deref
  \/ Discard

SpecResult == Init /\ [][NextResult]_vars

-----------------------------------------------------------------------------
(* Properties *)

\* the call that just returned
Returned(op) == call.op = op /\ ret.kind # "idle"

\* the program exited 0 with nothing on stderr and printed a JSON document
CleanReply == call.exec.success /\ call.exec.error = "" /\ call.exec.output.kind = "json"
Reply == call.exec.output.doc

WellFormed(e) == e.is # None /\ e.was # None

\* C1: after every update that returns Ok, also one whose reply has no
\* `changes` key, the resource's attribute map holds should[k] for every key k
\* of should other than "name".
C1_UpdateOkAppliesShould ==
  (Returned("update") /\ ret.kind = "ok") =>
     \A k \in DOMAIN call.should \ {"name"} :
        k \in DOMAIN held[1].attrs /\ held[1].attrs[k] = call.should[k]

\* C2: instances returns no partial results: when some entry of the
\* `resources` array, at any position, fails conversion (has no name), the
\* returned sequence is empty.
C2_InstancesNoPartialResults ==
  (Returned("instances") /\ CleanReply /\ ~Has(Reply.error) /\ Has(Reply.resources)
     /\ \E i \in 1..Len(The(Reply.resources)) : "name" \notin DOMAIN The(Reply.resources)[i])
  => (ret.kind = "list" /\ ret.rsrcs = <<>>)

\* the changes check appended to the change set it was handed
Appended == SubSeq(ret.chgs, Len(call.chgs) + 1, Len(ret.chgs))

\* C3 as claimed: every Change check appends for a property p has attr = p,
\* `is` = the resource's current value of p and `was` = the desired should[p].
C3_ChangeIsCurrentWasDesired ==
  Returned("check") =>
     \A i \in 1..Len(Appended) :
        /\ \E j \in 1..Len(call.props) : call.props[j] = Appended[i].attr
        /\ Appended[i].is = AttrGet(call.pre[1].attrs, Appended[i].attr)
        /\ Appended[i].was = AttrGet(call.should, Appended[i].attr)

\* C3 as amended: every Change check appends for a property p has attr = p,
\* `is` = the desired should[p] and `was` = the resource's current value of p.
C3_ChangeIsDesiredWasCurrent ==
  Returned("check") =>
     \A i \in 1..Len(Appended) :
        /\ \E j \in 1..Len(call.props) : call.props[j] = Appended[i].attr
        /\ Appended[i].is = AttrGet(call.should, Appended[i].attr)
        /\ Appended[i].was = AttrGet(call.pre[1].attrs, Appended[i].attr)

\* current a = "x", desired a = "y", property list [a]: one Change appended
C3_Witness ==
  /\ Returned("check")
  /\ call.props = <<"a">>
  /\ AttrGet(call.pre[1].attrs, "a") = "x"
  /\ AttrGet(call.should, "a") = "y"
  /\ Len(Appended) = 1

\* C4: update returns Err whenever the invocation fails, the reply carries an
\* error envelope or a `changes` entry is malformed, and every update that
\* returns Err leaves the resource's attribute map and name as they were.
C4_FailedUpdateAppliesNothing ==
  Returned("update") =>
     /\ (~call.exec.success \/ call.exec.error # "") => ret.kind = "err"
     /\ (CleanReply /\ Has(Reply.error)) => ret.kind = "err"
     /\ (CleanReply /\ Has(Reply.changes)
           /\ \E i \in 1..Len(The(Reply.changes)) : ~WellFormed(The(Reply.changes)[i]))
        => ret.kind = "err"
     /\ ret.kind = "err" => held = call.pre

\* an update that fails on the second entry of `changes`, with a should that
\* differs from the resource
C4_Witness ==
  /\ Returned("update")
  /\ ret.kind = "err"
  /\ CleanReply /\ Has(Reply.changes) /\ Len(The(Reply.changes)) = 2
  /\ WellFormed(The(Reply.changes)[1])
  /\ \E k \in DOMAIN call.should \ {"name"} : AttrGet(held[1].attrs, k) # call.should[k]

\* C5: run_action returns Ok only when the program exited with code 0 and
\* its stderr is empty; a non-zero exit or any stderr yields Err, whatever
\* stdout holds.
C5_RunActionOkOnlyOnCleanExit ==
  Returned("run_action") =>
     /\ ret.kind = "ok" => (call.exec.exit_code = 0 /\ call.exec.error = "")
     /\ (call.exec.exit_code # 0 \/ call.exec.error # "") => ret.kind = "err"

\* exit code 0 and a JSON document on stdout, but text on stderr
C5_Witness ==
  /\ Returned("run_action")
  /\ call.exec.exit_code = 0 /\ call.exec.error # "" /\ call.exec.output.kind = "json"
  /\ ret.kind = "err"

\* C6: for a non-zero exit the Err detail of run_action contains the exit
\* status, the stderr text when stderr is not empty and the stdout text when
\* stdout is not empty.
C6_FailureDetailIsComplete ==
  (Returned("run_action") /\ call.exec.exit_code # 0) =>
     /\ ret.kind = "err"
     /\ ret.detail.status = ToString(call.exec.exit_code)
     /\ call.exec.error # "" => ret.detail.error = call.exec.error
     /\ ~output_empty(call.exec.output) => ret.detail.output = call.exec.output

\* non-zero exit, stdout empty, stderr "boom"
C6_Witness ==
  /\ Returned("run_action")
  /\ call.exec.exit_code = 2 /\ output_empty(call.exec.output) /\ call.exec.error = "boom"
  /\ ret.detail.status = "2" /\ ret.detail.error = "boom"

\* C7: every resource find(name) returns, json_provider::find and the default
\* provider::find alike, has the requested name; when the backend's `resource`
\* carries another name, json_provider::find returns absent and no error
\* leaves it.
C7_FoundResourceHasRequestedName ==
  /\ (Returned("find") \/ Returned("provider_find")) =>
        \A i \in 1..Len(ret.rsrcs) : ret.rsrcs[i].name = call.name
  /\ (Returned("find") /\ CleanReply /\ ~Has(Reply.error) /\ Has(Reply.resource)
        /\ "name" \in DOMAIN The(Reply.resource)
        /\ The(Reply.resource)["name"] # call.name)
     => (ret.kind = "none" /\ ret.rsrcs = <<>>)

\* the backend answers find with a resource of another name
C7_Witness ==
  /\ Returned("find") /\ CleanReply /\ ~Has(Reply.error) /\ Has(Reply.resource)
  /\ "name" \in DOMAIN The(Reply.resource)
  /\ The(Reply.resource)["name"] # call.name
  /\ ret.kind = "none"

\* C8: when the find backend exits 0 with empty stderr and replies with an
\* error envelope of kind "unknown", find returns absent and logs nothing at
\* error severity, whatever the name and the (possibly missing) message.
C8_UnknownIsQuietlyAbsent ==
  (Returned("find") /\ CleanReply /\ Has(Reply.error) /\ The(Reply.error).kind = "unknown")
  => /\ ret.kind = "none" /\ ret.rsrcs = <<>>
     /\ \A i \in 1..Len(ret.log) : ret.log[i] # "error"

\* {"error": {"kind": "unknown"}} with no message
C8_Witness ==
  /\ Returned("find") /\ CleanReply /\ Has(Reply.error)
  /\ The(Reply.error).kind = "unknown" /\ The(Reply.error).message = None
  /\ ret.kind = "none"

\* C9: when the update backend exits 0 with empty stderr and no error
\* envelope, update returns Ok with exactly one Change(k, is, was) per key k of
\* the reply's `changes`, is and was taken from the entry's fields, in the
\* reply's key order; with no `changes` key it returns Ok with an empty
\* Change-Set.
C9_ChangeSetMirrorsReply ==
  (Returned("update") /\ CleanReply /\ ~Has(Reply.error)) =>
     /\ ~Has(Reply.changes) => (ret.kind = "ok" /\ ret.chgs = <<>>)
     /\ (Has(Reply.changes) /\ \A i \in 1..Len(The(Reply.changes)) :
                                   WellFormed(The(Reply.changes)[i]))
        => /\ ret.kind = "ok"
           /\ Len(ret.chgs) = Len(The(Reply.changes))
           /\ \A i \in 1..Len(ret.chgs) :
                 LET e == The(Reply.changes)[i] IN
                 /\ ret.chgs[i].attr = e.key
                 /\ ret.chgs[i].is = e.is
                 /\ ret.chgs[i].was = e.was

\* a reply with two changes, the second key sorting before the first
C9_Witness ==
  /\ Returned("update") /\ CleanReply /\ ~Has(Reply.error) /\ Has(Reply.changes)
  /\ Len(The(Reply.changes)) = 2
  /\ The(Reply.changes)[1].key = "b"
  /\ The(Reply.changes)[1].is # The(Reply.changes)[1].was
  /\ ret.kind = "ok" /\ Len(ret.chgs) = 2

\* every resource there is: the caller's handle and the ones just returned
Resources == {held[i] : i \in 1..Len(held)} \cup {ret.rsrcs[i] : i \in 1..Len(ret.rsrcs)}

\* C10: resource[key] with key = "name", read or written, fails with an
\* exception and changes nothing; no resource's attribute map ever holds the
\* key "name", and name() stays the name given at construction.
C10_IdentityIsNoAttribute ==
  /\ \A r \in Resources : "name" \notin DOMAIN r.attrs
  /\ ((Returned("read") \/ Returned("write")) /\ call.key = "name")
     => (ret.kind = "throw" /\ held = call.pre)
  /\ Returned("create") => ret.rsrcs[1] = [name |-> call.name, attrs |-> EmptyMap]
  /\ (Returned("update") \/ Returned("check") \/ Returned("read") \/ Returned("write"))
     => held[1].name = call.pre[1].name

\* a write of "name" through the accessor, on a resource that has attributes
C10_Witness ==
  /\ Returned("write") /\ call.key = "name" /\ call.value # None
  /\ ret.kind = "throw"
  /\ DOMAIN held[1].attrs # {}

\* C15: when the list backend exits 0 with empty stderr and (no error
\* envelope and) a `resources` array whose every entry has a name, instances
\* returns one resource per entry, in array order, named by the entry's name
\* and with exactly the entry's other keys as attributes, holding their values.
C15_InstancesMirrorsArray ==
  (Returned("instances") /\ CleanReply /\ ~Has(Reply.error) /\ Has(Reply.resources)
     /\ \A i \in 1..Len(The(Reply.resources)) : "name" \in DOMAIN The(Reply.resources)[i])
  => /\ ret.kind = "list"
     /\ Len(ret.rsrcs) = Len(The(Reply.resources))
     /\ \A i \in 1..Len(ret.rsrcs) :
           LET e == The(Reply.resources)[i] IN
           /\ ret.rsrcs[i].name = e["name"]
           /\ DOMAIN ret.rsrcs[i].attrs = DOMAIN e \ {"name"}
           /\ \A k \in DOMAIN e \ {"name"} : ret.rsrcs[i].attrs[k] = e[k]

\* two entries, the second one with an attribute
C15_Witness ==
  /\ Returned("instances") /\ CleanReply /\ ~Has(Reply.error) /\ Has(Reply.resources)
  /\ The(Reply.resources) = <<[name |-> "n2"], [name |-> "n1", a |-> "x"]>>
  /\ Len(ret.rsrcs) = 2

\* the listed properties, in list order, whose desired value is present and
\* differs from the value the resource had
Differing ==
  SelectSeq(call.props,
            LAMBDA p : /\ is_present(AttrGet(call.should, p))
                       /\ AttrGet(call.pre[1].attrs, p) # AttrGet(call.should, p))

\* C16: a check that returns has appended, after the entries already in the
\* change set and in props order, exactly one Change for each listed property
\* whose should value is present and differs from the resource's value, and
\* nothing for any other property.
C16_CheckAppendsInOrder ==
  (Returned("check") /\ ret.kind = "void") =>
     /\ Len(ret.chgs) >= Len(call.chgs)
     /\ SubSeq(ret.chgs, 1, Len(call.chgs)) = call.chgs
     /\ Len(Appended) = Len(Differing)
     /\ \A i \in 1..Len(Appended) : Appended[i].attr = Differing[i]

\* a change set that already holds an entry, props [b, a], both differing
C16_Witness ==
  /\ Returned("check") /\ ret.kind = "void"
  /\ call.chgs # <<>>
  /\ call.props = <<"b", "a">>
  /\ Len(Appended) = 2
  /\ "b" \notin DOMAIN call.pre[1].attrs

\* the first entry of the reply's `changes` that lacks `is` or `was`
FirstMalformed ==
  LET c == The(Reply.changes)
      i == CHOOSE i \in 1..Len(c) :
             ~WellFormed(c[i]) /\ \A j \in 1..(i - 1) : WellFormed(c[j])
  IN c[i]

\* C17: whenever an entry of the update reply's `changes` lacks `is` or `was`,
\* at whatever position and after however many well-formed entries, update
\* returns a malformed-response Err and no Change-Set.
C17_MalformedChangeIsErr ==
  (Returned("update") /\ CleanReply /\ ~Has(Reply.error) /\ Has(Reply.changes)
     /\ \E i \in 1..Len(The(Reply.changes)) : ~WellFormed(The(Reply.changes)[i]))
  => /\ ret.kind = "err"
     /\ ret.chgs = <<>>
     /\ ret.detail.arg = FirstMalformed.key
     /\ ret.detail.fmt =
          IF FirstMalformed.is = None
          THEN "malformed change: entry for {1} does not contain 'is'"
          ELSE "malformed change: entry for {1} does not contain 'was'"

\* a well-formed entry, then one without `was`
C17_Witness ==
  /\ Returned("update") /\ CleanReply /\ ~Has(Reply.error) /\ Has(Reply.changes)
  /\ Len(The(Reply.changes)) = 2
  /\ WellFormed(The(Reply.changes)[1])
  /\ The(Reply.changes)[2].is # None /\ The(Reply.changes)[2].was = None
  /\ ret.kind = "err"

\* the actions of the external invocations the call made, in order
InvokedActions == [i \in 1..Len(ret.invoked) |-> ret.invoked[i].action]

\* C18: each find, instances and update call performs exactly one external
\* invocation, of action "find", "list" and "update", within the call; create
\* and flush perform none: the invocations follow the calls one for one, with
\* no retry or batching.
C18_OneInvocationPerCall ==
  /\ Returned("find") => InvokedActions = <<"find">>
  /\ Returned("instances") => InvokedActions = <<"list">>
  /\ Returned("update") => InvokedActions = <<"update">>
  /\ (Returned("create") \/ Returned("flush")) => InvokedActions = <<>>

\* an instances call whose invocation failed: still one invocation
C18_Witness ==
  /\ Returned("instances") /\ ~call.exec.success
  /\ InvokedActions = <<"list">>

\* C19: check only reads the resource: its attribute map after check, key set
\* and values, is the one before, also for listed properties it does not have.
C19_CheckLeavesAttrsAlone ==
  Returned("check") => held[1].attrs = call.pre[1].attrs

\* C20: the request document update(should) sends has resource.name equal to
\* the resource's name(), also when should holds a "name" of its own.
C20_RequestNamesTheResource ==
  Returned("update") =>
     \A i \in 1..Len(ret.invoked) :
        ret.invoked[i].request.resource["name"] = call.pre[1].name

\* C12 as claimed: every suitable() call performs an external invocation of
\* action "suitable", as find, list and update do with theirs, while describe()
\* performs none.
C12_SuitableIsDispatched ==
  /\ Returned("suitable") => InvokedActions = <<"suitable">>
  /\ Returned("describe") => InvokedActions = <<>>

\* C12 as amended: suitable() performs no external invocation, like
\* describe(): it answers from the provider's metadata, Ok(true) or Ok(false)
\* for a `suitable` of "true" or "false" and an Error otherwise; find, list and
\* update are the calls dispatched to the external program.
C12_SuitableReadsMetadata ==
  /\ Returned("suitable") =>
        /\ InvokedActions = <<>>
        /\ (call.node.is_map /\ call.node.suitable \in {"true", "false"})
           => (ret.kind = "ok" /\ ret.flag = (call.node.suitable = "true"))
        /\ (~call.node.is_map \/ call.node.suitable = "maybe") => ret.kind = "err"
  /\ Returned("describe") => InvokedActions = <<>>
  /\ Returned("find") => InvokedActions = <<"find">>
  /\ Returned("instances") => InvokedActions = <<"list">>
  /\ Returned("update") => InvokedActions = <<"update">>

\* suitable() answering true from the metadata
C12_Witness ==
  /\ Returned("suitable") /\ call.node.suitable = "true"
  /\ ret.kind = "ok" /\ ret.flag

\* C11: while no prepare() has succeeded, also after failed ones, parse
\* returns the internal-error Err and does not crash; a prepare() whose
\* describe() fails returns that Error and leaves the stored spec as it was; a
\* prepare() whose describe() succeeds stores the spec and returns Ok(true).
C11_ParseNeedsPrepare ==
  [][/\ (Idle /\ call'.op = "parse" /\ ~Has(p_spec))
        => /\ ret'.kind = "err"
           /\ ret'.detail.fmt = "internal error: spec was not initialized"
           /\ p_spec' = p_spec
     /\ (Idle /\ call'.op = "prepare" /\ call'.read.kind = "err")
        => /\ ret'.kind = "err"
           /\ ret'.detail = call'.read.detail
           /\ p_spec' = p_spec
     /\ (Idle /\ call'.op = "prepare" /\ call'.read.kind = "ok")
        => /\ ret'.kind = "ok" /\ ret'.flag
           /\ p_spec' = Present(call'.read.value)
     /\ (~Has(p_spec) /\ Has(p_spec'))
        => (call'.op = "prepare" /\ ret'.kind = "ok")
    ]_vars

\* a parse of a well-typed text before any prepare() has succeeded
C11_Witness ==
  /\ Returned("parse") /\ ~Has(p_spec)
  /\ call.name = "a" /\ call.text = "true"
  /\ ret.kind = "err"

\* C13: after any sequence of construction, copy and move construction,
\* assignment from a result or an error, and destruction, no step has destroyed
\* or assigned into a payload that was never constructed or constructed one
\* over a live payload, and every live result has exactly one constructed
\* payload, the one its tag names.
C13_UnionDiscipline ==
  /\ fault = {}
  /\ \A i \in Ids :
       /\ objs[i].live => /\ objs[i].ok_live = (objs[i].tag = "ok")
                          /\ objs[i].err_live = (objs[i].tag = "err")
       /\ ~objs[i].live => (~objs[i].ok_live /\ ~objs[i].err_live)

Observers == {"is_ok", "is_err", "ok", "err", "deref"}

\* C14: every live result is exactly one of ok and err; is_ok() and is_err()
\* report the tag, ok() is present (with the value) iff the tag is ok, err()
\* is present (with the error) iff the tag is err, operator* yields the value
\* of an ok result and throws, yielding no value, on an err result; none of
\* these observers changes any result.
C14_ObserversReadTheTag ==
  [][/\ \A i \in Ids :
          objs'[i].live =>
            /\ is_ok(objs'[i]) # is_err(objs'[i])
            /\ Has(ok(objs'[i])) = is_ok(objs'[i])
            /\ Has(err(objs'[i])) = is_err(objs'[i])
     /\ (Idle /\ call'.op \in Observers) =>
          LET o == objs[call'.id] IN
          /\ objs' = objs
          /\ (call'.op = "is_ok") => (ret'.flag = (o.tag = "ok"))
          /\ (call'.op = "is_err") => (ret'.flag = (o.tag = "err"))
          /\ (call'.op = "ok") =>
                IF o.tag = "ok" THEN ret'.kind = "some" /\ ret'.value = o.okv
                                ELSE ret'.kind = "none"
          /\ (call'.op = "err") =>
                IF o.tag = "err" THEN ret'.kind = "some" /\ ret'.value = o.errv
                                 ELSE ret'.kind = "none"
          /\ (call'.op = "deref") =>
                IF o.tag = "ok" THEN ret'.kind = "ok" /\ ret'.value = o.okv
                                ELSE ret'.kind = "throw" /\ ret'.value = None
    ]_vars

\* operator* on a result that holds an error throws
C14_Witness ==
  /\ Returned("deref") /\ objs[call.id].tag = "err" /\ objs[call.id].errv = "e2"
  /\ ret.kind = "throw"

====
